---- MODULE Spec2Model ----
(***************************************************************************)
(* Workflow engine of src/core: construction-time validation of a workflow *)
(* description (Workflow._validate_workflow), name-based skill resolution  *)
(* (Search_Skill), Skill construction (Skill._validate_node) and the       *)
(* execution loop (Workflow.execute).                                      *)
(*                                                                         *)
(* Python values are tagged records [t, v]: t is the Python type as the    *)
(* isinstance tests of the code see it, v the payload (an integer, or the  *)
(* index of a string).  A key that is absent from a dict has t = "missing".*)
(* A raised exception is the record [exc, msg] of its raise statement.     *)
(***************************************************************************)
EXTENDS Integers, Sequences, FiniteSets, TLC

\* ------------------------------------------------------------------ bounds
MaxNodes == 2
MaxCalls == 2
MaxSteps == 4

\* ------------------------------------------------------------ Python values
PyInt(n) == [t |-> "int", v |-> n]
PyStr(n) == [t |-> "str", v |-> n]
None == [t |-> "none", v |-> 0]
Missing == [t |-> "missing", v |-> 0]

PyList(s) == [t |-> "list", items |-> s]
Dict == [t |-> "dict", items |-> <<>>]
NotAContainer == [t |-> "str", items |-> <<>>]
MissingContainer == [t |-> "missing", items |-> <<>>]

Range(s) == {s[i] : i \in 1..Len(s)}

\* ------------------------------------------------------------- exceptions
NoError == [exc |-> "", msg |-> ""]
Raise(exc, msg) == [exc |-> exc, msg |-> msg]

\* ------------------------------------------- Workflow._validate_workflow
\* lines 23-25: the three required top-level keys, in order
MissingTopLevelKey(data) ==
    \/ data.workflow_id.t = "missing"
    \/ data.entry.t = "missing"
    \/ data.nodes.t = "missing"

\* lines 27-34: the isinstance tests on the top-level values, in order
TopLevelTypeError(data) ==
    IF data.workflow_id.t # "str" THEN Raise("TypeError", "workflow_id must be a string")
    ELSE IF data.entry.t # "int" THEN Raise("TypeError", "entry must be an integer")
    ELSE IF data.nodes.t # "list" THEN Raise("TypeError", "nodes must be a list")
    ELSE IF data.meta.t # "missing" /\ data.meta.t # "dict"
         THEN Raise("TypeError", "meta must be a dict")
    ELSE NoError

\* lines 38-59: the checks made on one node, in the order of the loop body
WorkflowNodeError(node) ==
    IF \/ node.id.t = "missing" \/ node.type.t = "missing"
       \/ node.inputs.t = "missing" \/ node.outputs.t = "missing"
       \/ node.params.t = "missing"
    THEN Raise("ValueError", "Missing required node field")
    ELSE IF node.id.t # "int" THEN Raise("TypeError", "node id must be an integer")
    ELSE IF node.type.t # "str" THEN Raise("TypeError", "node type must be a string")
    ELSE IF node.inputs.t # "list" THEN Raise("TypeError", "node inputs must be a list")
    ELSE IF node.outputs.t # "list" THEN Raise("TypeError", "node outputs must be a list")
    ELSE IF node.params.t # "dict" THEN Raise("TypeError", "node params must be a dict")
    ELSE IF \E x \in Range(node.inputs.items) : x.t # "int"
         THEN Raise("TypeError", "node inputs items must be integers")
    ELSE IF \E x \in Range(node.outputs.items) : x.t # "none" /\ x.t # "int"
         THEN Raise("TypeError", "node outputs items must be integers or None")
    ELSE NoError

\* lines 37-61: the loop stops at the first node that raises
FirstNodeError(nodes) ==
    LET bad == {i \in 1..Len(nodes) : WorkflowNodeError(nodes[i]) # NoError}
    IN  IF bad = {} THEN NoError
        ELSE WorkflowNodeError(nodes[CHOOSE i \in bad : \A j \in bad : i <= j])

\* line 61: node_ids, the ids in declaration order
NodeIds(nodes) == [i \in 1..Len(nodes) |-> nodes[i].id]

\* the test of line 64 written with > in place of !=
HasMoreIdsThanNodes(node_ids) == Cardinality(Range(node_ids)) > Len(node_ids)

\* line 64: len(set(node_ids)) != len(node_ids)
HasDuplicateIds(node_ids) == Cardinality(Range(node_ids)) # Len(node_ids)

\* the test of line 66 made against the positions of the nodes, not their ids
EntryOutOfRange(entry, node_ids) == entry \notin {PyInt(i) : i \in 1..Len(node_ids)}

\* line 66: data["entry"] not in node_ids
EntryUnknown(entry, node_ids) == entry \notin Range(node_ids)

\* _validate_workflow with the tests of lines 64-65 and 66-67 exchanged
ValidateEntryBeforeIds(data) ==
    IF MissingTopLevelKey(data) THEN Raise("ValueError", "Missing required field")
    ELSE IF TopLevelTypeError(data) # NoError THEN TopLevelTypeError(data)
    ELSE IF FirstNodeError(data.nodes.items) # NoError
         THEN FirstNodeError(data.nodes.items)
    ELSE IF EntryUnknown(data.entry, NodeIds(data.nodes.items))
         THEN Raise("ValueError", "entry must reference an existing node id")
    ELSE IF HasDuplicateIds(NodeIds(data.nodes.items))
         THEN Raise("ValueError", "node ids must be unique")
    ELSE NoError

\* _validate_workflow with a further test: every declared output names a node
ValidateOutputsAtConstruction(data) ==
    IF MissingTopLevelKey(data) THEN Raise("ValueError", "Missing required field")
    ELSE IF TopLevelTypeError(data) # NoError THEN TopLevelTypeError(data)
    ELSE IF FirstNodeError(data.nodes.items) # NoError
         THEN FirstNodeError(data.nodes.items)
    ELSE IF HasDuplicateIds(NodeIds(data.nodes.items))
         THEN Raise("ValueError", "node ids must be unique")
    ELSE IF EntryUnknown(data.entry, NodeIds(data.nodes.items))
         THEN Raise("ValueError", "entry must reference an existing node id")
    ELSE IF \E i \in 1..Len(data.nodes.items) :
               \E x \in Range(data.nodes.items[i].outputs.items) :
                   x.t = "int" /\ EntryUnknown(x, NodeIds(data.nodes.items))
         THEN Raise("ValueError", "output must reference an existing node id")
    ELSE NoError

\* lines 21-67
_validate_workflow(data) ==
    IF MissingTopLevelKey(data) THEN Raise("ValueError", "Missing required field")
    ELSE IF TopLevelTypeError(data) # NoError THEN TopLevelTypeError(data)
    ELSE IF FirstNodeError(data.nodes.items) # NoError
         THEN FirstNodeError(data.nodes.items)
    ELSE IF HasDuplicateIds(NodeIds(data.nodes.items))
         THEN Raise("ValueError", "node ids must be unique")
    ELSE IF EntryUnknown(data.entry, NodeIds(data.nodes.items))
         THEN Raise("ValueError", "entry must reference an existing node id")
    ELSE NoError

\* ------------------------------------------------------ Skill._validate_node
\* _validate_node without the loop of lines 45-47
ValidateNodeIgnoresOutputItems(node) ==
    IF \/ node.type.t = "missing" \/ node.inputs.t = "missing"
       \/ node.outputs.t = "missing" \/ node.params.t = "missing"
    THEN Raise("ValueError", "Missing required field")
    ELSE IF node.type.t # "str" THEN Raise("TypeError", "type must be a string")
    ELSE IF node.inputs.t # "list" THEN Raise("TypeError", "inputs must be a list")
    ELSE IF node.outputs.t # "list" THEN Raise("TypeError", "outputs must be a list")
    ELSE IF node.params.t # "dict" THEN Raise("TypeError", "params must be a dict")
    ELSE IF \E x \in Range(node.inputs.items) : x.t # "int"
         THEN Raise("TypeError", "inputs items must be integers")
    ELSE NoError

\* Skill.py lines 26-47: the checks of Skill construction, in order
_validate_node(node) ==
    IF \/ node.type.t = "missing" \/ node.inputs.t = "missing"
       \/ node.outputs.t = "missing" \/ node.params.t = "missing"
    THEN Raise("ValueError", "Missing required field")
    ELSE IF node.type.t # "str" THEN Raise("TypeError", "type must be a string")
    ELSE IF node.inputs.t # "list" THEN Raise("TypeError", "inputs must be a list")
    ELSE IF node.outputs.t # "list" THEN Raise("TypeError", "outputs must be a list")
    ELSE IF node.params.t # "dict" THEN Raise("TypeError", "params must be a dict")
    ELSE IF \E x \in Range(node.inputs.items) : x.t # "int"
         THEN Raise("TypeError", "inputs items must be integers")
    ELSE IF \E x \in Range(node.outputs.items) : x.t # "none" /\ x.t # "int"
         THEN Raise("TypeError", "outputs items must be integers or None")
    ELSE NoError

\* -------------------------------------------------------------- Search_Skill
\* The plugin namespace the resolver imports from.  A type name is the string
\* PyStr(k); what importlib finds under plugins.<name> is PluginUnits[k]:
\*   "skill"        a module whose Self_skill is a concrete Skill subclass
\*   "absent"       no module of that name (ModuleNotFoundError)
\*   "no_symbol"    a module without Self_skill (as src/plugins/llm_api_note)
\*   "not_skill"    a module whose Self_skill is a callable that is no Skill
\*                  subclass (its result has no execute method)
\*   "not_callable" a module whose Self_skill cannot be called
PluginUnits == <<"skill", "absent", "no_symbol", "not_skill", "not_callable">>

TypeNames == {PyStr(k) : k \in 1..Len(PluginUnits)}

UnitOf(skill_name) == PluginUnits[skill_name.v]

NoObject == [kind |-> "none", inst |-> 0, id |-> Missing]

\* a resolver that answers an unknown type name with a skill of its own
SearchSkillWithDefault(skill_name, skill_data, inst) ==
    IF UnitOf(skill_name) = "no_symbol"
    THEN [err |-> Raise("ImportError", "Plugin missing Self_skill"), obj |-> NoObject]
    ELSE IF UnitOf(skill_name) = "not_callable"
    THEN [err |-> Raise("TypeError", "object is not callable"), obj |-> NoObject]
    ELSE IF UnitOf(skill_name) = "not_skill"
    THEN [err |-> NoError,
          obj |-> [kind |-> "object", inst |-> inst, id |-> skill_data.id]]
    ELSE IF _validate_node(skill_data) # NoError
    THEN [err |-> _validate_node(skill_data), obj |-> NoObject]
    ELSE [err |-> NoError,
          obj |-> [kind |-> "Skill", inst |-> inst, id |-> skill_data.id]]

\* What Search_Skill(skill_name, skill_data) does: [err, obj], the exception it
\* raises (NoError when it returns) and the object it returns.  inst is the
\* serial number of the call, which tells two constructed objects apart.
Search_Skill(skill_name, skill_data, inst) ==
    IF UnitOf(skill_name) = "absent"
    THEN [err |-> Raise("ImportError", "Plugin module not found"), obj |-> NoObject]
    ELSE IF UnitOf(skill_name) = "no_symbol"
    THEN [err |-> Raise("ImportError", "Plugin missing Self_skill"), obj |-> NoObject]
    ELSE IF UnitOf(skill_name) = "not_callable"
    THEN [err |-> Raise("TypeError", "object is not callable"), obj |-> NoObject]
    ELSE IF UnitOf(skill_name) = "not_skill"
    THEN [err |-> NoError,
          obj |-> [kind |-> "object", inst |-> inst, id |-> skill_data.id]]
    ELSE IF _validate_node(skill_data) # NoError
    THEN [err |-> _validate_node(skill_data), obj |-> NoObject]
    ELSE [err |-> NoError,
          obj |-> [kind |-> "Skill", inst |-> inst, id |-> skill_data.id]]

\* ------------------------------------------------- the resolution loops
\* One Search_Skill call per node, in declaration order, up to and including
\* the first call that raises (Workflow.py lines 71 and 77-78).
FirstFailure(nodes) ==
    LET bad == {i \in 1..Len(nodes) :
                   Search_Skill(nodes[i].type, nodes[i], 0).err # NoError}
    IN  IF bad = {} THEN Len(nodes) + 1
        ELSE CHOOSE i \in bad : \A j \in bad : i <= j

ResolveLoop(nodes, by, done) ==
    LET k == FirstFailure(nodes)
        n == IF k <= Len(nodes) THEN k ELSE Len(nodes)
        call(i) == Search_Skill(nodes[i].type, nodes[i], done + i)
    IN  [calls |-> [i \in 1..n |-> [by |-> by, node |-> i, type |-> nodes[i].type,
                                     err |-> call(i).err, obj |-> call(i).obj]],
         err |-> IF k <= Len(nodes) THEN call(k).err ELSE NoError]

\* The dict built by assigning skill_map[node["id"]] for the calls that
\* returned: a later assignment to the same key replaces the earlier one.
MapOf(nodes, calls) ==
    LET ok == {i \in 1..Len(calls) : calls[i].err = NoError}
        last(key) == CHOOSE i \in ok :
                        /\ nodes[i].id = key
                        /\ \A j \in ok : nodes[j].id = key => j <= i
    IN  [key \in {nodes[i].id : i \in ok} |-> calls[last(key)].obj]

EmptyMap == [key \in {} |-> NoObject]
Unset == [isNone |-> TRUE, map |-> EmptyMap, list |-> <<>>]

\* _get_skill_map without the test of line 75: the map is built on every call
GetSkillMapUncached(skill_map, nodes, done) ==
    LET r == ResolveLoop(nodes, "execute", done)
    IN  [skill_map |-> [isNone |-> FALSE, map |-> MapOf(nodes, r.calls),
                        list |-> <<>>],
         calls |-> r.calls, err |-> r.err]

\* lines 74-79: [skill_map, calls, err]
\* _get_skill_map leaving out the nodes whose type does not resolve, so that
\* the failure would show only when such a node is reached
GetSkillMapSkipsUnresolvable(skill_map, nodes, done) ==
    IF ~skill_map.isNone
    THEN [skill_map |-> skill_map, calls |-> <<>>, err |-> NoError]
    ELSE LET r == ResolveLoop(nodes, "execute", done)
         IN  [skill_map |-> [isNone |-> FALSE, map |-> MapOf(nodes, r.calls),
                             list |-> <<>>],
              calls |-> r.calls, err |-> NoError]

_get_skill_map(skill_map, nodes, done) ==
    IF ~skill_map.isNone
    THEN [skill_map |-> skill_map, calls |-> <<>>, err |-> NoError]
    ELSE LET r == ResolveLoop(nodes, "execute", done)
         IN  [skill_map |-> [isNone |-> FALSE, map |-> MapOf(nodes, r.calls),
                             list |-> <<>>],
              calls |-> r.calls, err |-> r.err]

\* lines 69-72: [skills, calls, err]; the assignment of line 71 happens only
\* when the whole list comprehension returned
get_skills(skills, nodes, done) ==
    IF ~skills.isNone
    THEN [skills |-> skills, calls |-> <<>>, err |-> NoError]
    ELSE LET r == ResolveLoop(nodes, "get_skills", done)
         IN  [skills |-> IF r.err # NoError THEN skills
                         ELSE [isNone |-> FALSE, map |-> EmptyMap,
                               list |-> [i \in 1..Len(r.calls) |-> r.calls[i].obj]],
              calls |-> r.calls, err |-> r.err]

\* the dict comprehension binding every key to the first node
NodeMapOfFirstNode(nodes) ==
    [key \in {nodes[i].id : i \in 1..Len(nodes)} |-> nodes[1]]

\* lines 13-15: the dict comprehension {node["id"]: node for node in nodes}
NodeMapOf(nodes) ==
    LET last(key) == CHOOSE i \in 1..Len(nodes) :
                        /\ nodes[i].id = key
                        /\ \A j \in 1..Len(nodes) : nodes[j].id = key => j <= i
    IN  [key \in {nodes[i].id : i \in 1..Len(nodes)} |-> nodes[last(key)]]

\* _validate_next without the test of lines 85-86
ValidateNextAcceptsAnyNone(node_map, current_id, next_id) ==
    IF next_id = None THEN NoError
    ELSE IF current_id \in DOMAIN node_map
            /\ next_id \in Range(node_map[current_id].outputs.items)
    THEN NoError
    ELSE Raise("ValueError", "next_id not found in current node outputs")

\* _validate_next without the test of lines 89-90
ValidateNextAcceptsAnyId(node_map, current_id, next_id) ==
    IF current_id \notin DOMAIN node_map THEN Raise("KeyError", "current_id")
    ELSE IF next_id = None /\ None \notin Range(node_map[current_id].outputs.items)
    THEN Raise("ValueError", "next_id is None but outputs has no None marker")
    ELSE NoError

\* lines 81-90
_validate_next(node_map, current_id, next_id) ==
    IF current_id \notin DOMAIN node_map THEN Raise("KeyError", "current_id")
    ELSE LET outputs == Range(node_map[current_id].outputs.items)
         IN  IF next_id = None
             THEN IF None \notin outputs
                  THEN Raise("ValueError", "next_id is None but outputs has no None marker")
                  ELSE NoError
             ELSE IF next_id \notin outputs
                  THEN Raise("ValueError", "next_id not found in current node outputs")
                  ELSE NoError

\* the loop body going on at the current node when the transition is refused
LoopBodyFallsBack(node_map, current_id, next_id) ==
    IF next_id = None
    THEN [err |-> _validate_next(node_map, current_id, next_id), done |-> TRUE,
          current_id |-> current_id]
    ELSE IF next_id.t # "int"
    THEN [err |-> Raise("TypeError", "execute must return an integer node id or None"),
          done |-> TRUE, current_id |-> current_id]
    ELSE IF _validate_next(node_map, current_id, next_id) # NoError
    THEN [err |-> NoError, done |-> FALSE, current_id |-> current_id]
    ELSE [err |-> NoError, done |-> FALSE, current_id |-> next_id]

\* the loop body with lines 106-107 and line 108 exchanged
LoopBodyValidatesFirst(node_map, current_id, next_id) ==
    IF _validate_next(node_map, current_id, next_id) # NoError
    THEN [err |-> _validate_next(node_map, current_id, next_id), done |-> TRUE,
          current_id |-> current_id]
    ELSE IF next_id = None
    THEN [err |-> NoError, done |-> TRUE, current_id |-> current_id]
    ELSE IF next_id.t # "int"
    THEN [err |-> Raise("TypeError", "execute must return an integer node id or None"),
          done |-> TRUE, current_id |-> current_id]
    ELSE [err |-> NoError, done |-> FALSE, current_id |-> next_id]

\* the loop body without the assignment of line 109
LoopBodyKeepsCurrent(node_map, current_id, next_id) ==
    IF next_id = None
    THEN [err |-> _validate_next(node_map, current_id, next_id), done |-> TRUE,
          current_id |-> current_id]
    ELSE IF next_id.t # "int"
    THEN [err |-> Raise("TypeError", "execute must return an integer node id or None"),
          done |-> TRUE, current_id |-> current_id]
    ELSE [err |-> _validate_next(node_map, current_id, next_id),
          done |-> _validate_next(node_map, current_id, next_id) # NoError,
          current_id |-> current_id]

\* the loop body without the return of line 104
LoopBodyGoesOnAfterNone(node_map, current_id, next_id) ==
    IF next_id # None /\ next_id.t # "int"
    THEN [err |-> Raise("TypeError", "execute must return an integer node id or None"),
          done |-> TRUE, current_id |-> current_id]
    ELSE IF _validate_next(node_map, current_id, next_id) # NoError
    THEN [err |-> _validate_next(node_map, current_id, next_id), done |-> TRUE,
          current_id |-> current_id]
    ELSE [err |-> NoError, done |-> FALSE,
          current_id |-> IF next_id = None THEN current_id ELSE next_id]

\* the loop body refusing to run the same node twice in a row
LoopBodyRefusesSelfLoop(node_map, current_id, next_id) ==
    IF next_id = None
    THEN [err |-> _validate_next(node_map, current_id, next_id), done |-> TRUE,
          current_id |-> current_id]
    ELSE IF next_id.t # "int"
    THEN [err |-> Raise("TypeError", "execute must return an integer node id or None"),
          done |-> TRUE, current_id |-> current_id]
    ELSE IF _validate_next(node_map, current_id, next_id) # NoError
    THEN [err |-> _validate_next(node_map, current_id, next_id), done |-> TRUE,
          current_id |-> current_id]
    ELSE IF next_id = current_id
    THEN [err |-> Raise("RuntimeError", "cycle detected"), done |-> TRUE,
          current_id |-> current_id]
    ELSE [err |-> NoError, done |-> FALSE, current_id |-> next_id]

\* lines 98-109: one iteration of the loop of execute, for the value next_id
\* returned by the skill of current_id: [err, done, current_id]
LoopBody(node_map, current_id, next_id) ==
    IF next_id = None
    THEN [err |-> _validate_next(node_map, current_id, next_id), done |-> TRUE,
          current_id |-> current_id]
    ELSE IF next_id.t # "int"
    THEN [err |-> Raise("TypeError", "execute must return an integer node id or None"),
          done |-> TRUE, current_id |-> current_id]
    ELSE IF _validate_next(node_map, current_id, next_id) # NoError
    THEN [err |-> _validate_next(node_map, current_id, next_id), done |-> TRUE,
          current_id |-> current_id]
    ELSE [err |-> NoError, done |-> FALSE, current_id |-> next_id]

\* --------------------------------------------------------------- the inputs
Node(id, type, inputs, outputs, params) ==
    [id |-> id, type |-> type, inputs |-> inputs, outputs |-> outputs,
     params |-> params]

Description(workflow_id, entry_, nodes_, meta) ==
    [workflow_id |-> workflow_id, entry |-> entry_, nodes |-> nodes_, meta |-> meta]

WellFormed(i, type, outs) ==
    Node(PyInt(i), type, PyList(<<PyInt(i)>>), PyList(outs), Dict)

\* the declared outputs tried: terminate only, one successor (possibly the id
\* MaxNodes + 1 that no node carries), node 1 or terminate
OutputChoices ==
    {<<None>>} \cup {<<PyInt(i)>> : i \in 1..MaxNodes + 1}
               \cup {<<PyInt(1), None>>}

\* nodes of resolvable type, node i carrying id i, with every choice of outputs
ExecLists ==
    UNION {{[i \in 1..n |-> WellFormed(i, PyStr(1), o[i])] :
               o \in [1..n -> OutputChoices]} : n \in 1..MaxNodes}

\* nodes of every plugin unit, ids in any order, repeated ids included
PluginNodes == {WellFormed(i, ty, <<None>>) : i \in 1..MaxNodes, ty \in TypeNames}

\* one well-formed node with one field missing or of the wrong shape
Defects(n) ==
    {[n EXCEPT !.id = Missing], [n EXCEPT !.id = PyStr(0)],
     [n EXCEPT !.type = Missing], [n EXCEPT !.type = PyInt(0)],
     [n EXCEPT !.inputs = MissingContainer], [n EXCEPT !.inputs = NotAContainer],
     [n EXCEPT !.inputs = PyList(<<PyStr(0)>>)],
     [n EXCEPT !.outputs = MissingContainer], [n EXCEPT !.outputs = NotAContainer],
     [n EXCEPT !.outputs = PyList(<<None, PyStr(0)>>)],
     [n EXCEPT !.params = MissingContainer], [n EXCEPT !.params = NotAContainer]}

BadNodes == Defects(WellFormed(1, PyStr(1), <<None>>))

SeqsUpTo(S, n) == UNION {[1..k -> S] : k \in 0..n}

\* the node lists tried: the executable ones, those over the plugin units, and
\* those of defective nodes mixed with the well-formed node they derive from
NodeLists ==
    ExecLists \cup SeqsUpTo(PluginNodes, MaxNodes)
              \cup SeqsUpTo(BadNodes \cup {WellFormed(1, PyStr(1), <<None>>)}, MaxNodes)

Entries == {PyInt(i) : i \in 1..MaxNodes + 1}

\* every combination of top-level defects, over an empty, a one-node and a
\* repeated-id node list
TopLevelVariants ==
    {Description(w, e, [t |-> nt, items |-> l], m) :
        w \in {PyStr(0), PyInt(0), Missing},
        e \in {PyInt(1), PyStr(0), Missing},
        nt \in {"list", "str", "missing"},
        l \in SeqsUpTo({WellFormed(1, PyStr(1), <<None>>)}, 2),
        m \in {MissingContainer, Dict, NotAContainer}}

Descriptions ==
    {Description(PyStr(0), e, PyList(l), MissingContainer) :
        e \in Entries, l \in NodeLists} \cup TopLevelVariants

\* what a skill's execute may return: None, a string, an id (declared or not)
Returns == {None, PyStr(0)} \cup {PyInt(i) : i \in 1..MaxNodes + 1}

\* Skill.execute(context): the skill of node id writes to the context it is
\* handed (the write is recorded as the node's id)
SkillWrites(context, id) == Append(context, id)

\* what a skill's execute raises when it fails
SkillError == Raise("SkillError", "skill execution failed")

\* the loop body dropping the failing skill's writes when it raises
ContextRolledBackOnFailure(context, err) ==
    IF err # NoError THEN SubSeq(context, 1, Len(context) - 1) ELSE context

\* lines 102-109: what the loop body leaves in the context the skill returned
\* from, whether it raises err or not; no statement of execute touches it
ContextAfterLoopBody(context, err) == context

\* ------------------------------------------- logging.py: error recovery
\* ErrorAction (logging.py lines 162-168), by value
EXIT == "exit"
RETRY == "retry"
PROMPT_RETRY == "prompt"
IGNORE == "ignore"
CONTINUE == "continue"

\* the bounds of the recovery runs: max_retries ranges over 0..MaxRetries, a
\* run makes at most MaxEvents calls, a retry loop at most MaxHandled
MaxRetries == 2
MaxEvents == 4
MaxHandled == 102

\* line 287: the size error_history is cut back to
HistoryLimit == 100

\* the error codes used and the WorkflowError objects handled: [code, action]
Codes == {"4001", "4002"}
WorkflowError(code, action) == [code |-> code, action |-> action]
\* lines 204-212: NetworkError is code 4001 with action RETRY
NetworkError == WorkflowError("4001", RETRY)
Errors == {NetworkError, WorkflowError("4002", RETRY), WorkflowError("4001", CONTINUE)}

\* what a registered recovery handler does with an error: it returns an
\* ErrorAction, or it returns something else or raises (lines 291-297 then
\* go on to the default logic)
NoResult == "no result"
HandlerOutcomes == {IGNORE, NoResult}

\* ErrorRecoveryManager.__init__, lines 257-262
ErrorRecoveryManager(max_retries) ==
    [max_retries |-> max_retries,
     retry_counts |-> [c \in {} |-> 0],
     recovery_handlers |-> {},
     error_history |-> <<>>]

\* dict.get(error_code, 0) on retry_counts
RetryCount(rec, error_code) ==
    IF error_code \in DOMAIN rec.retry_counts THEN rec.retry_counts[error_code] ELSE 0

\* should_retry with <= for <
ShouldRetryInclusive(rec, error_code) ==
    RetryCount(rec, error_code) <= rec.max_retries

\* lines 264-265
should_retry(rec, error_code) ==
    RetryCount(rec, error_code) < rec.max_retries

\* lines 267-270: the manager after increment_retry(error_code)
increment_retry(rec, error_code) ==
    [rec EXCEPT !.retry_counts =
        [c \in DOMAIN rec.retry_counts \cup {error_code} |->
            IF c = error_code THEN RetryCount(rec, error_code) + 1
            ELSE rec.retry_counts[c]]]

\* lines 272-273: the manager after reset_retry(error_code)
reset_retry(rec, error_code) ==
    [rec EXCEPT !.retry_counts =
        [c \in DOMAIN rec.retry_counts \ {error_code} |-> rec.retry_counts[c]]]

\* lines 275-276: the manager after register_handler(error_code, handler)
register_handler(rec, error_code) ==
    [rec EXCEPT !.recovery_handlers = rec.recovery_handlers \cup {error_code}]

\* the history cut back to its oldest HistoryLimit records
KeepOldest(history) ==
    IF Len(history) > HistoryLimit
    THEN SubSeq(history, 1, HistoryLimit)
    ELSE history

\* lines 287-288: error_history[-100:] when it is longer than 100
LimitHistory(history) ==
    IF Len(history) > HistoryLimit
    THEN SubSeq(history, Len(history) - HistoryLimit + 1, Len(history))
    ELSE history

\* ErrorRecoveryManager.handle_error, lines 278-308: [recovery, answer], the
\* manager after the call and the ErrorAction returned.  now is the reading of
\* the clock, outcome what the handler registered for the code (if any) does.
handle_error(rec, error, now, outcome) ==
    LET recorded ==
            [rec EXCEPT !.error_history =
                LimitHistory(Append(rec.error_history,
                    [timestamp |-> now, error |-> error,
                     retry_count |-> RetryCount(rec, error.code)]))]
    IN  IF error.code \in rec.recovery_handlers /\ outcome # NoResult
        THEN [recovery |-> recorded, answer |-> outcome]
        ELSE IF error.action = RETRY
        THEN IF should_retry(recorded, error.code)
             THEN [recovery |-> increment_retry(recorded, error.code), answer |-> RETRY]
             ELSE [recovery |-> recorded, answer |-> PROMPT_RETRY]
        ELSE [recovery |-> recorded, answer |-> error.action]

\* ----------------------------------------------------------------- state
VARIABLES
    data,        \* the description handed to Workflow(data)
    pc,          \* "new", "rejected" (__init__ raised), "ready", "running"
    last,        \* the last call made: "none", "__init__", "execute", "get_skills"
    raised,      \* what the last call raised so far (NoError: nothing)
    entry, nodes, node_map, skills, skill_map,   \* the Workflow's fields
    current_id,  \* the local of execute
    trace,       \* the skill executions of the current execute call: [id, ret]
    resolved,    \* every Search_Skill call made so far, in order
    calls,       \* the number of execute and get_skills calls made
    context,     \* the context of the current execute call: the ids of the
                 \* skills that have written to it, in order
    checked,     \* what the two node validations raised for the node of data,
                 \* when they are applied to it on their own
    recovery,    \* the ErrorRecoveryManager (Logger.recovery): its fields
    handled,     \* every handle_error and reset_retry call made on the
                 \* manager, in order, with what handle_error returned
    logged       \* every Logger.handle_error call made, in order: the error,
                 \* the action returned, the manager before and after

vars == <<data, pc, last, raised, entry, nodes, node_map, skills, skill_map,
          current_id, trace, resolved, calls, context, checked, recovery, handled,
          logged>>

recovery_vars == <<recovery, handled, logged>>

NotApplied == [exc |-> "not applied", msg |-> ""]

fields == <<entry, nodes, node_map, skills, skill_map>>

Init ==
    /\ data \in Descriptions
    /\ pc = "new"
    /\ last = "none"
    /\ raised = NoError
    /\ entry = Missing
    /\ nodes = <<>>
    /\ node_map = [key \in {} |-> Missing]
    /\ skills = Unset
    /\ skill_map = Unset
    /\ current_id = Missing
    /\ trace = <<>>
    /\ resolved = <<>>
    /\ calls = 0
    /\ context = <<>>
    /\ checked = [workflow |-> NotApplied, skill |-> NotApplied]
    /\ recovery = ErrorRecoveryManager(0)
    /\ handled = <<>>
    /\ logged = <<>>

\* Workflow.__init__, lines 7-17
Construct ==
    /\ pc = "new"
    /\ last' = "__init__"
    /\ raised' = _validate_workflow(data)
    /\ IF _validate_workflow(data) # NoError
       THEN /\ pc' = "rejected"
            /\ UNCHANGED fields
       ELSE /\ pc' = "ready"
            /\ entry' = data.entry
            /\ nodes' = data.nodes.items
            /\ node_map' = NodeMapOf(data.nodes.items)
            /\ skills' = Unset
            /\ skill_map' = Unset
    /\ UNCHANGED <<recovery_vars, data, checked, current_id, trace, resolved, calls, context>>

\* get_skills taking the nodes off self._nodes as it resolves them
GetSkillsConsumesNodes ==
    /\ pc = "ready"
    /\ calls < MaxCalls
    /\ LET r == get_skills(skills, nodes, Len(resolved))
       IN  /\ skills' = r.skills
           /\ resolved' = resolved \o r.calls
           /\ raised' = r.err
           /\ nodes' = SubSeq(nodes, Len(r.calls) + 1, Len(nodes))
    /\ last' = "get_skills"
    /\ calls' = calls + 1
    /\ UNCHANGED <<recovery_vars, data, checked, pc, entry, node_map, skill_map, current_id, trace,
                   context>>

\* Workflow.get_skills, lines 69-72
GetSkills ==
    /\ pc = "ready"
    /\ calls < MaxCalls
    /\ LET r == get_skills(skills, nodes, Len(resolved))
       IN  /\ skills' = r.skills
           /\ resolved' = resolved \o r.calls
           /\ raised' = r.err
    /\ last' = "get_skills"
    /\ calls' = calls + 1
    /\ UNCHANGED <<recovery_vars, data, checked, pc, entry, nodes, node_map, skill_map, current_id, trace,
                   context>>

\* execute with the loop started at the first declared node instead of entry
ExecuteCallStartsAtFirstNode ==
    /\ pc = "ready"
    /\ calls < MaxCalls
    /\ LET r == _get_skill_map(skill_map, nodes, Len(resolved))
       IN  /\ skill_map' = r.skill_map
           /\ resolved' = resolved \o r.calls
           /\ raised' = r.err
           /\ IF r.err # NoError
              THEN pc' = "ready" /\ UNCHANGED current_id
              ELSE pc' = "running" /\ current_id' = nodes[1].id
    /\ last' = "execute"
    /\ trace' = <<>>
    /\ context' = <<>>
    /\ calls' = calls + 1
    /\ UNCHANGED <<recovery_vars, data, checked, entry, nodes, node_map, skills>>

\* Workflow.execute, lines 92-95: up to the loop, with the context the caller
\* created for this run
ExecuteCall ==
    /\ pc = "ready"
    /\ calls < MaxCalls
    /\ LET r == _get_skill_map(skill_map, nodes, Len(resolved))
       IN  /\ skill_map' = r.skill_map
           /\ resolved' = resolved \o r.calls
           /\ raised' = r.err
           /\ IF r.err # NoError
              THEN pc' = "ready" /\ UNCHANGED current_id
              ELSE pc' = "running" /\ current_id' = entry
    /\ last' = "execute"
    /\ trace' = <<>>
    /\ context' = <<>>
    /\ calls' = calls + 1
    /\ UNCHANGED <<recovery_vars, data, checked, entry, nodes, node_map, skills>>

\* line 98-99: the loop finds no skill under current_id
ExecuteUnknown ==
    /\ pc = "running"
    /\ current_id \notin DOMAIN skill_map.map
    /\ raised' = Raise("ValueError", "Unknown node id")
    /\ pc' = "ready"
    /\ UNCHANGED <<recovery_vars, data, checked, last, fields, current_id, trace, resolved, calls, context>>

\* line 101: the object under current_id has no execute method
ExecuteNotSkill ==
    /\ pc = "running"
    /\ current_id \in DOMAIN skill_map.map
    /\ skill_map.map[current_id].kind # "Skill"
    /\ raised' = Raise("AttributeError", "execute")
    /\ pc' = "ready"
    /\ UNCHANGED <<recovery_vars, data, checked, last, fields, current_id, trace, resolved, calls, context>>

\* lines 101-109: the skill of current_id executes and returns next_id
ExecuteStep ==
    /\ pc = "running"
    /\ current_id \in DOMAIN skill_map.map
    /\ skill_map.map[current_id].kind = "Skill"
    /\ Len(trace) < MaxSteps
    /\ \E next_id \in Returns :
          LET r == LoopBody(node_map, current_id, next_id)
          IN  /\ trace' = Append(trace, [id |-> current_id, ret |-> next_id])
              /\ raised' = r.err
              /\ pc' = IF r.done THEN "ready" ELSE "running"
              /\ current_id' = r.current_id
              /\ context' = ContextAfterLoopBody(SkillWrites(context, current_id), r.err)
    /\ UNCHANGED <<recovery_vars, data, checked, last, fields, resolved, calls>>

\* line 101: the skill of current_id raises; execute has no try statement, so
\* the exception leaves execute
ExecuteSkillRaises ==
    /\ pc = "running"
    /\ current_id \in DOMAIN skill_map.map
    /\ skill_map.map[current_id].kind = "Skill"
    /\ Len(trace) < MaxSteps
    /\ trace' = Append(trace, [id |-> current_id, ret |-> Missing])
    /\ context' = SkillWrites(context, current_id)
    /\ raised' = SkillError
    /\ pc' = "ready"
    /\ UNCHANGED <<recovery_vars, data, checked, last, fields, current_id, resolved, calls>>

Next ==
    \/ Construct
    \/ GetSkills
    \/ ExecuteCall
    \/ ExecuteUnknown
    \/ ExecuteNotSkill
    \/ ExecuteStep
    \/ ExecuteSkillRaises

Spec == Init /\ [][Next]_vars

\* ------------------------------------- the two node validations on their own
\* node definitions with every combination of absent, wrongly shaped and
\* well-shaped fields
NodeShapes ==
    {Node(id, type, inputs, outputs, params) :
        id \in {Missing, PyInt(1), PyStr(0)},
        type \in {Missing, PyStr(1), PyInt(0)},
        inputs \in {MissingContainer, NotAContainer, PyList(<<>>),
                    PyList(<<PyInt(1)>>), PyList(<<PyInt(1), PyStr(0)>>)},
        outputs \in {MissingContainer, NotAContainer, PyList(<<None, PyInt(1)>>),
                     PyList(<<PyStr(0)>>), PyList(<<None, PyStr(0)>>)},
        params \in {MissingContainer, NotAContainer, Dict}}

NodeInit ==
    /\ \E n \in NodeShapes :
          data = Description(PyStr(0), PyInt(1), PyList(<<n>>), MissingContainer)
    /\ pc = "new"
    /\ last = "none"
    /\ raised = NoError
    /\ entry = Missing
    /\ nodes = <<>>
    /\ node_map = [key \in {} |-> Missing]
    /\ skills = Unset
    /\ skill_map = Unset
    /\ current_id = Missing
    /\ trace = <<>>
    /\ resolved = <<>>
    /\ calls = 0
    /\ context = <<>>
    /\ checked = [workflow |-> NotApplied, skill |-> NotApplied]
    /\ recovery = ErrorRecoveryManager(0)
    /\ handled = <<>>
    /\ logged = <<>>

\* the body of the loop of _validate_workflow (lines 38-59) on the node
CheckWorkflowNode ==
    /\ checked.workflow = NotApplied
    /\ checked' = [checked EXCEPT !.workflow = WorkflowNodeError(data.nodes.items[1])]
    /\ UNCHANGED <<recovery_vars, data, pc, last, raised, fields, current_id, trace, resolved,
                   calls, context>>

\* Skill.__init__ (Skill.py line 14) on the node
CheckSkillNode ==
    /\ checked.skill = NotApplied
    /\ checked' = [checked EXCEPT !.skill = _validate_node(data.nodes.items[1])]
    /\ UNCHANGED <<recovery_vars, data, pc, last, raised, fields, current_id, trace, resolved,
                   calls, context>>

NodeNext == CheckWorkflowNode \/ CheckSkillNode

NodeSpec == NodeInit /\ [][NodeNext]_vars

\* ------------------------------------------- the error recovery on its own
\* the workflow core makes no use of the logging module: in the runs of the
\* recovery manager no Workflow is constructed
workflow_vars ==
    <<data, pc, last, raised, fields, current_id, trace, resolved, calls, context,
      checked>>

\* a manager as constructed, with max_retries from 0 to MaxRetries
RecoveryInit ==
    /\ data = Description(PyStr(0), PyInt(1), PyList(<<>>), MissingContainer)
    /\ pc = "new"
    /\ last = "none"
    /\ raised = NoError
    /\ entry = Missing
    /\ nodes = <<>>
    /\ node_map = [key \in {} |-> Missing]
    /\ skills = Unset
    /\ skill_map = Unset
    /\ current_id = Missing
    /\ trace = <<>>
    /\ resolved = <<>>
    /\ calls = 0
    /\ context = <<>>
    /\ checked = [workflow |-> NotApplied, skill |-> NotApplied]
    /\ \E max_retries \in 0..MaxRetries : recovery = ErrorRecoveryManager(max_retries)
    /\ handled = <<>>
    /\ logged = <<>>

\* the entry of handled for one call on the manager
Handled(op, error, answer) == [op |-> op, error |-> error, answer |-> answer]

\* what the handler registered for the error's code may do in one call
OutcomesFor(rec, error) ==
    IF error.code \in rec.recovery_handlers THEN HandlerOutcomes ELSE {NoResult}

\* ErrorRecoveryManager.handle_error(error), lines 278-308
HandleError ==
    /\ Len(handled) < MaxEvents
    /\ \E error \in Errors : \E outcome \in OutcomesFor(recovery, error) :
          LET r == handle_error(recovery, error, Len(handled) + 1, outcome)
          IN  /\ recovery' = r.recovery
              /\ handled' = Append(handled, Handled("handle_error", error, r.answer))
    /\ UNCHANGED <<logged, workflow_vars>>

\* ErrorRecoveryManager.reset_retry(error_code), lines 272-273
ResetRetry ==
    /\ Len(handled) < MaxEvents
    /\ \E error_code \in Codes :
          /\ recovery' = reset_retry(recovery, error_code)
          /\ handled' = Append(handled,
                 Handled("reset_retry", WorkflowError(error_code, NoResult), NoResult))
    /\ UNCHANGED <<logged, workflow_vars>>

\* ErrorRecoveryManager.register_handler(error_code, handler), lines 275-276
RegisterHandler ==
    /\ \E error_code \in Codes \ recovery.recovery_handlers :
          recovery' = register_handler(recovery, error_code)
    /\ UNCHANGED <<handled, logged, workflow_vars>>

\* Logger.handle_error(error), lines 595-608: the manager handles the error
\* (line 597), then Logger.log is called with error=error and hands it to the
\* manager again (lines 559-560), dropping the answer; the first answer is
\* returned
LoggerHandleError ==
    /\ Len(handled) + 2 <= MaxEvents
    /\ \E error \in Errors :
       \E outcome1 \in OutcomesFor(recovery, error) :
       \E outcome2 \in OutcomesFor(recovery, error) :
          LET r1 == handle_error(recovery, error, Len(handled) + 1, outcome1)
              r2 == handle_error(r1.recovery, error, Len(handled) + 2, outcome2)
          IN  /\ recovery' = r2.recovery
              /\ handled' = handled \o <<Handled("handle_error", error, r1.answer),
                                        Handled("handle_error", error, r2.answer)>>
              /\ logged' = Append(logged, [error |-> error, action |-> r1.answer,
                                           before |-> recovery, after |-> r2.recovery])
    /\ UNCHANGED workflow_vars

RecoveryNext ==
    \/ HandleError
    \/ ResetRetry
    \/ RegisterHandler
    \/ LoggerHandleError

RecoverySpec == RecoveryInit /\ [][RecoveryNext]_vars

\* a retry loop: the same operation fails again and again with the same error,
\* handed to the manager each time, up to MaxHandled times
RetryLoop ==
    /\ Len(handled) < MaxHandled
    /\ \E error \in Errors :
          /\ IF handled = <<>> THEN TRUE ELSE error = handled[Len(handled)].error
          /\ LET r == handle_error(recovery, error, Len(handled) + 1, NoResult)
             IN  /\ recovery' = r.recovery
                 /\ handled' = Append(handled, Handled("handle_error", error, r.answer))
    /\ UNCHANGED <<logged, workflow_vars>>

RetryLoopSpec == RecoveryInit /\ [][RetryLoop]_vars

\* ------------------------------------------------ the failure kinds raised
\* Workflow.py line 65
DuplicateNodeIdError == Raise("ValueError", "node ids must be unique")
\* Workflow.py line 67
UnknownEntryError == Raise("ValueError", "entry must reference an existing node id")
\* Workflow.py lines 86 and 90
InvalidTransitionError ==
    {Raise("ValueError", "next_id is None but outputs has no None marker"),
     Raise("ValueError", "next_id not found in current node outputs")}
\* Workflow.py line 107
ContractViolationError ==
    Raise("TypeError", "execute must return an integer node id or None")
\* Workflow.py line 99
UnknownNodeError == Raise("ValueError", "Unknown node id")
\* Skill_search.py line 16
PluginNotFoundError == Raise("ImportError", "Plugin module not found")
\* Skill_search.py line 21
PluginContractError == Raise("ImportError", "Plugin missing Self_skill")

\* ------------------------------------------------ vocabulary of the claims
\* the nodes a description declares
DeclaredNodes(d) == IF d.nodes.t = "list" THEN d.nodes.items ELSE <<>>

\* the ids a description declares
DeclaredIds(d) ==
    {DeclaredNodes(d)[i].id : i \in 1..Len(DeclaredNodes(d))} \ {Missing}

\* the outputs the description declares for the node(s) carrying id
DeclaredOutputs(d, id) ==
    UNION {Range(DeclaredNodes(d)[i].outputs.items) :
              i \in {j \in 1..Len(DeclaredNodes(d)) : DeclaredNodes(d)[j].id = id}}

\* two nodes of the description share an id
SharesAnId(d) ==
    \E i, j \in 1..Len(DeclaredNodes(d)) :
        /\ i # j
        /\ DeclaredNodes(d)[i].id # Missing
        /\ DeclaredNodes(d)[i].id = DeclaredNodes(d)[j].id

\* a node definition with every required field in its required shape
WellShapedNode(n) ==
    /\ n.id.t = "int"
    /\ n.type.t = "str"
    /\ n.inputs.t = "list"
    /\ \A x \in Range(n.inputs.items) : x.t = "int"
    /\ n.outputs.t = "list"
    /\ \A x \in Range(n.outputs.items) : x.t \in {"int", "none"}
    /\ n.params.t = "dict"

\* the top-level keys and every node have their required shapes
WellShaped(d) ==
    /\ d.workflow_id.t = "str"
    /\ d.entry.t = "int"
    /\ d.nodes.t = "list"
    /\ d.meta.t \in {"missing", "dict"}
    /\ \A i \in 1..Len(d.nodes.items) : WellShapedNode(d.nodes.items[i])

\* a structurally valid description: shapes, unique ids, declared entry
ValidDescription(d) ==
    /\ WellShaped(d)
    /\ ~SharesAnId(d)
    /\ d.entry \in DeclaredIds(d)

\* the call of execute in progress or last made
ExecuteReturned == last = "execute" /\ pc = "ready" /\ raised = NoError
ExecuteFailed == last = "execute" /\ pc = "ready" /\ raised # NoError
ConstructionFailed == last = "__init__" /\ pc = "rejected" /\ raised # NoError

\* the last skill execution of the current execute call
LastStep == trace[Len(trace)]

\* ---------------------------------------------------------------------- C1
\* C1: execute returns normally only when the skill of the current node
\* returned None and None is among that node's declared outputs; when a skill
\* returns None and None is not declared, execute has failed with
\* InvalidTransitionError.
C1_TerminatesOnlyOnDeclaredNone ==
    /\ ExecuteReturned =>
          /\ trace # <<>>
          /\ LastStep.ret = None
          /\ LastStep.id = current_id
          /\ None \in DeclaredOutputs(data, LastStep.id)
    /\ (/\ last = "execute"
        /\ trace # <<>>
        /\ LastStep.ret = None
        /\ None \notin DeclaredOutputs(data, LastStep.id)) =>
          /\ ExecuteFailed
          /\ raised \in InvalidTransitionError

\* C1 witness: a run of two skill executions has terminated, and so has a
\* run failed on an undeclared None
C1_Witness ==
    /\ ExecuteReturned
    /\ Len(trace) = 2

C1_WitnessUndeclaredNone ==
    /\ ExecuteFailed
    /\ trace # <<>>
    /\ LastStep.ret = None
    /\ None \notin DeclaredOutputs(data, LastStep.id)

\* ---------------------------------------------------------------------- C2
\* C2: when the skill of a node returns an integer id that the node does not
\* declare among its outputs, execute fails with InvalidTransitionError and
\* that skill execution is the last one of the run.
C2_UndeclaredIdHalts ==
    last = "execute" =>
        \A k \in 1..Len(trace) :
            (trace[k].ret.t = "int"
             /\ trace[k].ret \notin DeclaredOutputs(data, trace[k].id)) =>
                /\ k = Len(trace)
                /\ ExecuteFailed
                /\ raised \in InvalidTransitionError

\* C2 witness: the second skill execution of a run returned an undeclared id
C2_Witness ==
    /\ last = "execute"
    /\ Len(trace) = 2
    /\ LastStep.ret.t = "int"
    /\ LastStep.ret \notin DeclaredOutputs(data, LastStep.id)
    /\ ExecuteFailed

\* ---------------------------------------------------------------------- C3
\* C3: when a skill returns a value that is neither an integer nor None,
\* execute fails with ContractViolationError (not with the failure of the
\* transition validation, which would refuse the value as well), and that
\* skill execution is the last one of the run.
C3_NonIntegerReturnIsContractViolation ==
    last = "execute" =>
        \A k \in 1..Len(trace) :
            trace[k].ret.t \notin {"int", "none", "missing"} =>
                /\ k = Len(trace)
                /\ ExecuteFailed
                /\ raised = ContractViolationError

\* C3 witness: a skill returned a string, which its node does not declare
C3_Witness ==
    /\ ExecuteFailed
    /\ trace # <<>>
    /\ LastStep.ret.t = "str"
    /\ LastStep.ret \notin DeclaredOutputs(data, LastStep.id)

\* ---------------------------------------------------------------------- C4
\* C4 as stated: every description in which two nodes share an id is refused
\* with DuplicateNodeIdError, whatever its other defects.
C4_AsStated ==
    (last # "none" /\ SharesAnId(data)) =>
        (ConstructionFailed /\ raised = DuplicateNodeIdError)

\* C4 as amended: every description that has its top-level keys and all its
\* nodes in the required shapes and in which two nodes share an id is refused
\* with DuplicateNodeIdError, whether or not its entry names a declared node.
C4_DuplicateIdAmongWellShaped ==
    (last # "none" /\ WellShaped(data) /\ SharesAnId(data)) =>
        (ConstructionFailed /\ raised = DuplicateNodeIdError)

\* C4 witness: a description with a shared id and an undeclared entry was
\* refused for the shared id
C4_Witness ==
    /\ ConstructionFailed
    /\ raised = DuplicateNodeIdError
    /\ SharesAnId(data)
    /\ data.entry \notin DeclaredIds(data)

\* ---------------------------------------------------------------------- C5
\* C5 as stated: every description whose entry equals the id of no declared
\* node is refused with UnknownEntryError.
C5_AsStated ==
    (last # "none" /\ data.entry \notin DeclaredIds(data)) =>
        (ConstructionFailed /\ raised = UnknownEntryError)

\* C5 as amended: every description that has its top-level keys and all its
\* nodes in the required shapes, whose node ids are pairwise different and
\* whose entry equals the id of no declared node is refused with
\* UnknownEntryError.
C5_UnknownEntryAmongUniqueIds ==
    (/\ last # "none"
     /\ WellShaped(data)
     /\ ~SharesAnId(data)
     /\ data.entry \notin DeclaredIds(data)) =>
        (ConstructionFailed /\ raised = UnknownEntryError)

\* C5 witness: a description of two nodes, neither carrying the entry, was
\* refused for its entry
C5_Witness ==
    /\ ConstructionFailed
    /\ raised = UnknownEntryError
    /\ Len(DeclaredNodes(data)) = 2
    /\ data.entry \notin DeclaredIds(data)

\* ---------------------------------------------------------------------- C6
\* C6: for every valid description construction succeeds, the keys of
\* node_map are exactly the declared ids, and every declared node is the
\* value under its own id.
C6_NodeMapIsTheDeclaredNodes ==
    (last # "none" /\ ValidDescription(data)) =>
        /\ pc # "rejected"
        /\ DOMAIN node_map = DeclaredIds(data)
        /\ Cardinality(DOMAIN node_map) = Len(data.nodes.items)
        /\ \A i \in 1..Len(data.nodes.items) :
              node_map[data.nodes.items[i].id] = data.nodes.items[i]

\* C6 witness: a valid description of two nodes has been constructed
C6_Witness ==
    /\ last = "__init__"
    /\ pc = "ready"
    /\ ValidDescription(data)
    /\ Cardinality(DOMAIN node_map) = 2

\* ---------------------------------------------------------------------- C7
\* C7: for a description with a structural violation construction fails, and
\* no Search_Skill call and no skill execution is ever made.
C7_InvalidDescriptionNeverResolvedOrExecuted ==
    ~ValidDescription(data) =>
        /\ last # "none" => ConstructionFailed
        /\ resolved = <<>>
        /\ trace = <<>>
        /\ pc \notin {"ready", "running"}

\* C7 witness: a well-shaped description with a shared id has been refused
C7_Witness ==
    /\ ConstructionFailed
    /\ WellShaped(data)
    /\ SharesAnId(data)
    /\ resolved = <<>>

\* the Search_Skill calls made so far by caller `by` for the node at index i
CallsFor(by, i) == {k \in 1..Len(resolved) : resolved[k].by = by /\ resolved[k].node = i}

\* the objects the Workflow holds as skills
HeldObjects ==
    {skill_map.map[key] : key \in DOMAIN skill_map.map} \cup Range(skills.list)

\* ---------------------------------------------------------------------- C8
\* C8: a Search_Skill call for a type name under which no plugin unit exists
\* raises PluginNotFoundError and returns nothing; the Workflow holds no skill
\* for that call.
C8_AbsentPluginIsNotFound ==
    \A k \in 1..Len(resolved) :
        UnitOf(resolved[k].type) = "absent" =>
            /\ resolved[k].err = PluginNotFoundError
            /\ resolved[k].obj = NoObject
            /\ \A o \in HeldObjects : o.inst # k

\* C8 witness: after a successful resolution, the second node's type was not
\* found and execute failed
C8_Witness ==
    /\ ExecuteFailed
    /\ Len(resolved) = 2
    /\ resolved[1].err = NoError
    /\ UnitOf(resolved[2].type) = "absent"
    /\ raised = PluginNotFoundError

\* ---------------------------------------------------------------------- C9
\* C9 as stated: a Search_Skill call for a type name whose plugin unit exists
\* but has no Self_skill, or has a Self_skill that is no Skill implementation,
\* raises PluginContractError and returns nothing.
C9_AsStated ==
    \A k \in 1..Len(resolved) :
        UnitOf(resolved[k].type) \in {"no_symbol", "not_skill", "not_callable"} =>
            /\ resolved[k].err = PluginContractError
            /\ resolved[k].obj = NoObject

\* --------------------------------------------------------------------- C10
\* C10: over execute calls, Search_Skill is called at most once for each
\* node, and whenever the skill map is set the objects in it are the ones
\* those calls returned.
C10_SkillMapBuiltOnce ==
    /\ \A i \in 1..Len(nodes) : Cardinality(CallsFor("execute", i)) <= 1
    /\ ~skill_map.isNone =>
          \A key \in DOMAIN skill_map.map :
              \E k \in 1..Len(resolved) :
                  /\ resolved[k].by = "execute"
                  /\ nodes[resolved[k].node].id = key
                  /\ resolved[k].obj = skill_map.map[key]

\* C10 witness: a second execute call on the same Workflow runs its loop with
\* the skills of two nodes, each resolved once
C10_Witness ==
    /\ calls = 2
    /\ last = "execute"
    /\ pc = "running"
    /\ Len(nodes) = 2
    /\ Len(resolved) = 2
    /\ \A k \in 1..Len(resolved) : resolved[k].by = "execute"

\* --------------------------------------------------------------------- C11
\* C11 as stated: over get_skills and execute calls, no node ever has more
\* than one Skill instance constructed for it.
C11_AsStated ==
    \A i \in 1..Len(nodes) :
        Cardinality({k \in 1..Len(resolved) :
                        resolved[k].node = i /\ resolved[k].obj.kind = "Skill"}) <= 1

\* --------------------------------------------------------------------- C12
\* C12 as stated: no execute call on a constructed Workflow ends with
\* UnknownNodeError (every transition taken in the loop has passed
\* _validate_next, which the loop never skips).
C12_AsStated ==
    last = "execute" => raised # UnknownNodeError

\* C12 as amended: execute ends with UnknownNodeError only right after a
\* validated transition to a declared output that is the id of no declared
\* node, or at a declared node that the skill map lacks because the resolution
\* of an earlier execute call failed part-way.
C12_UnknownNodeOnlyByDanglingOutputOrPartialMap ==
    (last = "execute" /\ raised = UnknownNodeError) =>
        \/ /\ trace # <<>>
           /\ current_id = LastStep.ret
           /\ LastStep.ret \in {x \in DeclaredOutputs(data, LastStep.id) :
                                   x.t = "int" /\ x \notin DeclaredIds(data)}
        \/ /\ current_id \in DeclaredIds(data)
           /\ \E k \in 1..Len(resolved) :
                 resolved[k].by = "execute" /\ resolved[k].err # NoError

\* C12 witness: a second execute call found its entry node missing from the
\* skill map that the failed first call left behind
C12_Witness ==
    /\ ExecuteFailed
    /\ raised = UnknownNodeError
    /\ trace = <<>>
    /\ current_id \in DeclaredIds(data)
    /\ calls = 2

\* --------------------------------------------------------------------- C13
\* the declared outputs of the node carrying id that name no declared node
DanglingOutputs(d, id) ==
    {x \in DeclaredOutputs(d, id) : x.t = "int" /\ x \notin DeclaredIds(d)}

HasDanglingOutput(d) == \E id \in DeclaredIds(d) : DanglingOutputs(d, id) # {}

\* C13: a description that is valid but for a declared output naming no node
\* is accepted by construction; when a skill returns such a declared id the
\* transition is taken, no further skill executes and the run ends with
\* UnknownNodeError at the next loop test.
C13_DanglingOutputFoundAtExecution ==
    (ValidDescription(data) /\ HasDanglingOutput(data)) =>
        /\ last # "none" => pc # "rejected"
        /\ last = "execute" =>
              \A k \in 1..Len(trace) :
                  trace[k].ret \in DanglingOutputs(data, trace[k].id) =>
                      /\ k = Len(trace)
                      /\ current_id = trace[k].ret
                      /\ \/ pc = "running"
                         \/ ExecuteFailed /\ raised = UnknownNodeError

\* C13 witness: the second skill of a run returned a declared id that names no
\* node, and execute failed on it
C13_Witness ==
    /\ ExecuteFailed
    /\ raised = UnknownNodeError
    /\ Len(trace) = 2
    /\ LastStep.ret \in DanglingOutputs(data, LastStep.id)

\* every declared node's type names a plugin unit with a Skill implementation
AllTypesResolvable(d) ==
    \A i \in 1..Len(DeclaredNodes(d)) : UnitOf(DeclaredNodes(d)[i].type) = "skill"

\* --------------------------------------------------------------------- C14
\* C14: a failure ends the execute call at once (a skill execution that
\* raised or was refused is the last of the run, and the call is over), and
\* the context then holds exactly the writes of the skills that executed, in
\* order, the failing one's included.
C14_FailureLeavesPartialContext ==
    last = "execute" =>
        /\ context = [k \in 1..Len(trace) |-> trace[k].id]
        /\ raised # NoError => pc = "ready"
        /\ \A k \in 1..Len(trace) :
              trace[k].ret = Missing =>
                  (k = Len(trace) /\ ExecuteFailed /\ raised = SkillError)

\* C14 witness: execute failed at its third skill execution
C14_Witness ==
    /\ ExecuteFailed
    /\ Len(trace) = 3
    /\ Len(context) = 3

\* --------------------------------------------------------------------- C15
\* C15: in every state after a successful construction, whatever get_skills
\* and execute calls were made since, entry and the node table are the
\* description's and node_map maps every declared id to its node definition
\* (inputs and outputs included).
C15_GraphImmutable ==
    pc \in {"ready", "running"} =>
        /\ entry = data.entry
        /\ nodes = data.nodes.items
        /\ DOMAIN node_map = DeclaredIds(data)
        /\ \A i \in 1..Len(data.nodes.items) :
              node_map[data.nodes.items[i].id] = data.nodes.items[i]

\* C15 witness: a failed get_skills call and a failed execute call have been
\* made on a Workflow of two nodes
C15_Witness ==
    /\ pc = "ready"
    /\ calls = 2
    /\ raised # NoError
    /\ Len(nodes) = 2
    /\ \E k \in 1..Len(resolved) : resolved[k].by = "get_skills"
    /\ \E k \in 1..Len(resolved) : resolved[k].by = "execute"

\* --------------------------------------------------------------------- C16
\* the two-node cycle: node 1 declares [2], node 2 declares [1, None]
TwoNodeCycle(d) ==
    /\ ValidDescription(d)
    /\ AllTypesResolvable(d)
    /\ d.entry = PyInt(1)
    /\ DeclaredIds(d) = {PyInt(1), PyInt(2)}
    /\ DeclaredOutputs(d, PyInt(1)) = {PyInt(2)}
    /\ DeclaredOutputs(d, PyInt(2)) = {PyInt(1), None}

\* so far in this execute call node 1's skill has returned 2 and node 2's
\* skill 1 on its first invocation and None afterwards
FollowsCycleScript ==
    \A k \in 1..Len(trace) :
        /\ trace[k].id = PyInt(1) => trace[k].ret = PyInt(2)
        /\ trace[k].id = PyInt(2) =>
              trace[k].ret = IF \E j \in 1..(k - 1) : trace[j].id = PyInt(2)
                             THEN None ELSE PyInt(1)

CycleRun ==
    <<[id |-> PyInt(1), ret |-> PyInt(2)], [id |-> PyInt(2), ret |-> PyInt(1)],
      [id |-> PyInt(1), ret |-> PyInt(2)], [id |-> PyInt(2), ret |-> None]>>

\* C16: on the two-node cycle with skills that follow the script, execute
\* runs the skills in the order 1, 2, 1, 2 and then returns normally.
C16_TwoNodeCycleRunsTwice ==
    (TwoNodeCycle(data) /\ last = "execute" /\ FollowsCycleScript) =>
        /\ Len(trace) <= 4
        /\ trace = SubSeq(CycleRun, 1, Len(trace))
        /\ raised = NoError
        /\ pc = (IF Len(trace) = 4 THEN "ready" ELSE "running")

\* C16 witness: the run 1, 2, 1, 2 has returned
C16_Witness ==
    /\ TwoNodeCycle(data)
    /\ ExecuteReturned
    /\ trace = CycleRun

\* --------------------------------------------------------------------- C17
\* a single node that declares [None]
SingleTerminalNode(d) ==
    /\ ValidDescription(d)
    /\ AllTypesResolvable(d)
    /\ Len(d.nodes.items) = 1
    /\ d.nodes.items[1].outputs.items = <<None>>

\* C17: on a single-node workflow that declares [None] and whose skill
\* returns None, execute makes exactly one skill execution and returns.
C17_SingleNodeRunsOnce ==
    (/\ SingleTerminalNode(data)
     /\ last = "execute"
     /\ \A k \in 1..Len(trace) : trace[k].ret = None) =>
        /\ Len(trace) <= 1
        /\ raised = NoError
        /\ pc = (IF Len(trace) = 1 THEN "ready" ELSE "running")

\* C17 witness: the one skill has run once and execute has returned
C17_Witness ==
    /\ SingleTerminalNode(data)
    /\ ExecuteReturned
    /\ Len(trace) = 1

\* --------------------------------------------------------------------- C18
\* C18: a node that the Workflow's per-node checks accept is accepted by
\* Skill._validate_node; a node with an integer id that Skill._validate_node
\* accepts is accepted by the Workflow's checks; and on a node with an integer
\* id the two raise the same kind of exception (ValueError for a missing
\* field, TypeError for a wrong shape).
C18_SameShapeRules ==
    (checked.workflow # NotApplied /\ checked.skill # NotApplied) =>
        /\ checked.workflow = NoError => checked.skill = NoError
        /\ data.nodes.items[1].id.t = "int" =>
              /\ checked.skill = NoError => checked.workflow = NoError
              /\ checked.workflow.exc = checked.skill.exc

\* C18 witness: both validations refused a node with an integer id for a
\* wrong shape
C18_Witness ==
    /\ data.nodes.items[1].id.t = "int"
    /\ checked.workflow.exc = "TypeError"
    /\ checked.skill.exc = "TypeError"

\* --------------------------------------------------------------------- C19
\* every skill execution of this execute call returned a declared output that
\* is the id of a declared node
StaysInGraph ==
    \A k \in 1..Len(trace) :
        /\ trace[k].ret.t = "int"
        /\ trace[k].ret \in DeclaredOutputs(data, trace[k].id)
        /\ trace[k].ret \in DeclaredIds(data)

\* C19: as long as the skills return declared successors, execute neither
\* returns nor fails, whatever the number of skill executions so far: the
\* next skill execution is enabled.
C19_NoStepLimit ==
    (last = "execute" /\ AllTypesResolvable(data) /\ StaysInGraph) =>
        /\ pc = "running"
        /\ raised = NoError
        /\ Len(trace) < MaxSteps => ENABLED ExecuteStep

\* C19 witness: a run around a cycle is still going after MaxSteps skill
\* executions
C19_Witness ==
    /\ last = "execute"
    /\ AllTypesResolvable(data)
    /\ StaysInGraph
    /\ Len(trace) = MaxSteps
    /\ pc = "running"

\* --------------------------------------------------------------------- C20
\* C20 as stated: whenever the cached skill map is set, its keys are all the
\* declared node ids (no partly built map is kept).
C20_AsStated ==
    ~skill_map.isNone => DOMAIN skill_map.map = DeclaredIds(data)

\* --------------------------------------------------------------------- C21
\* C21: in every run of execute the executed node ids form a path of the
\* declared graph from entry: the first executed id is entry, every executed
\* id is a key of node_map, and every later one is among the declared outputs
\* of the node executed before it.
C21_ExecutedIdsFormAPath ==
    last = "execute" =>
        /\ Len(trace) > 0 => trace[1].id = entry
        /\ \A k \in 1..Len(trace) : trace[k].id \in DOMAIN node_map
        /\ \A k \in 2..Len(trace) :
              trace[k].id \in Range(node_map[trace[k - 1].id].outputs.items)

\* C21 witness: a run that started at entry 2 and executed three skills
C21_Witness ==
    /\ last = "execute"
    /\ entry = PyInt(2)
    /\ Len(trace) = 3
    /\ trace[2].id # trace[1].id

\* --------------------------------------------------------------------- C22
\* the resolution of node n raises
Unresolvable(n) == Search_Skill(n.type, n, 0).err # NoError

\* C22: the first execute call (the one that finds no cached skill map) on a
\* workflow with a node whose type does not resolve, reachable from entry or
\* not, fails with the error the resolution of the first such node raised,
\* with no skill executed and the context as it was handed in.
C22_ResolvesAllBeforeExecutingAny ==
    [][(/\ last' = "execute"
        /\ calls' = calls + 1
        /\ skill_map.isNone
        /\ \E i \in 1..Len(nodes) : Unresolvable(nodes[i])) =>
            /\ raised' = Search_Skill(nodes[FirstFailure(nodes)].type,
                                      nodes[FirstFailure(nodes)], 0).err
            /\ raised'.exc \in {"ImportError", "TypeError"}
            /\ pc' = "ready"
            /\ trace' = <<>>
            /\ context' = <<>>]_vars

\* C22 witness: the first call made on the workflow was execute; entry's type
\* resolved, the type of node 2, which no node leads to, did not, and the
\* call failed with no skill executed
C22_Witness ==
    /\ ExecuteFailed
    /\ calls = 1
    /\ entry = PyInt(1)
    /\ Len(nodes) = 2
    /\ ~Unresolvable(nodes[1])
    /\ nodes[2].id = PyInt(2)
    /\ Unresolvable(nodes[2])
    /\ PyInt(2) \notin Range(nodes[1].outputs.items)
    /\ raised = PluginNotFoundError
    /\ trace = <<>>
    /\ context = <<>>

\* --------------------------------------------------------------------- C23
\* the positions in handled of the handle_error calls
HandlePositions == {k \in 1..Len(handled) : handled[k].op = "handle_error"}

\* the handle_error calls with a RETRY-action error of the code
RetryOccurrences(code) ==
    {k \in HandlePositions : handled[k].error = WorkflowError(code, RETRY)}

\* the position of the last reset_retry(code) before position k (0: none)
LastReset(code, k) ==
    LET resets == {j \in 1..(k - 1) : /\ handled[j].op = "reset_retry"
                                      /\ handled[j].error.code = code}
    IN  IF resets = {} THEN 0 ELSE CHOOSE j \in resets : \A i \in resets : i <= j

\* the rank of call k among the RETRY-action occurrences of the code since the
\* last reset_retry of the code
OccurrenceRank(code, k) ==
    Cardinality({j \in RetryOccurrences(code) : LastReset(code, k) < j /\ j <= k})

\* C23: for a code without a registered handler, the retry count never exceeds
\* max_retries, and of the RETRY-action errors of the code handled since the
\* last reset_retry (or since construction) the first max_retries are answered
\* RETRY and every later one PROMPT_RETRY.
C23_RetryBudgetPerCode ==
    \A code \in Codes \ recovery.recovery_handlers :
        /\ RetryCount(recovery, code) <= recovery.max_retries
        /\ \A k \in RetryOccurrences(code) :
              handled[k].answer =
                  IF OccurrenceRank(code, k) <= recovery.max_retries
                  THEN RETRY ELSE PROMPT_RETRY

\* C23 witness: with max_retries = 1 and no handler, code 4001 was answered
\* RETRY, then PROMPT_RETRY, and after reset_retry RETRY again
C23_Witness ==
    /\ recovery.max_retries = 1
    /\ recovery.recovery_handlers = {}
    /\ Len(handled) = 4
    /\ \A k \in {1, 2, 4} : handled[k].error = NetworkError
    /\ handled[3].op = "reset_retry" /\ handled[3].error.code = "4001"
    /\ <<handled[1].answer, handled[2].answer, handled[4].answer>> =
           <<RETRY, PROMPT_RETRY, RETRY>>

\* --------------------------------------------------------------------- C24
\* C24 as stated: every Logger.handle_error call appended exactly one record
\* to error_history and incremented the retry count of the error's code at
\* most once.
C24_AsStated ==
    \A k \in 1..Len(logged) :
        /\ Len(logged[k].after.error_history) = Len(logged[k].before.error_history) + 1
        /\ RetryCount(logged[k].after, logged[k].error.code)
               <= RetryCount(logged[k].before, logged[k].error.code) + 1

\* --------------------------------------------------------------------- C25
\* the handle_error calls whose records error_history is to hold: the last
\* HistoryLimit of them
RecentHandlePositions ==
    {k \in HandlePositions :
        Cardinality({j \in HandlePositions : j >= k}) <= HistoryLimit}

\* C25: error_history holds at most HistoryLimit records, and they are the
\* records of the most recent handle_error calls, one each, in the order of
\* the calls (a record's timestamp is the position of its call).
C25_HistoryIsMostRecent ==
    LET history == recovery.error_history
    IN  /\ Len(history) <= HistoryLimit
        /\ {history[i].timestamp : i \in 1..Len(history)} = RecentHandlePositions
        /\ \A i \in 1..Len(history) :
              /\ history[i].error = handled[history[i].timestamp].error
              /\ i > 1 => history[i - 1].timestamp < history[i].timestamp

\* C25 witness: more than HistoryLimit errors were handled and the oldest
\* record kept is that of the call HistoryLimit calls back
C25_Witness ==
    /\ Len(handled) = MaxHandled
    /\ Len(recovery.error_history) = HistoryLimit
    /\ recovery.error_history[1].timestamp = MaxHandled - HistoryLimit + 1

====
